---- MODULE Spec2Model ----
(***************************************************************************)
(* Model of the filter engine of src/src/filter.cpp: Filter, FilterClass   *)
(* and FilterChain (add, clear, empty, excluded, included, load).          *)
(*                                                                         *)
(* A std::string is a sequence of characters; a character is a one-letter  *)
(* TLA+ string, and NUL stands for the byte '\0'.                          *)
(***************************************************************************)
EXTENDS Integers, Sequences, FiniteSets, TLC

VARIABLES mExclusions, mInclusions, lastOp, lastArg, lastRet, lastThrew,
          preExclusions, preInclusions, frame

vars == <<mExclusions, mInclusions, lastOp, lastArg, lastRet, lastThrew,
          preExclusions, preInclusions, frame>>

(***************************************************************************)
(* Bounds of the model.                                                    *)
(***************************************************************************)
\* add is offered while the chain holds fewer rules than this.
MaxRules == 2
\* longest line sequence handed to load.
MaxLines == 2
\* longest line of the exhaustive enumeration of lines (SpecGrammar).
MaxLineLen == 5
\* longest run of failed loads before the next load (SpecRetry).
MaxFailedLoads == 2

(***************************************************************************)
(* Characters and strings.                                                 *)
(***************************************************************************)
NUL == "NUL"

\* the vertical tab, which has no escape in a TLA+ string.
VT == "VT"

\* std::isspace in the "C" locale: space, \t, \n, \v, \f, \r.  The
\* characters of the model are 7-bit, where isspace is defined.
isspace(c) == c \in {" ", "\t", "\n", VT, "\f", "\r"}

\* *p for a pointer p == text.data() + (i - 1): the characters of the
\* string, then its terminator.
CharAt(text, i) == IF i <= Len(text) THEN text[i] ELSE NUL

\* std::string(const char*): the characters up to the first NUL.
RECURSIVE CString(_)
CString(s) ==
    IF s = <<>> \/ Head(s) = NUL THEN <<>> ELSE <<Head(s)>> \o CString(Tail(s))

(***************************************************************************)
(* enum FilterType, enum FilterStrategy.                                   *)
(***************************************************************************)
FT_NAME == "NAME"
FT_PATH == "PATH"
FS_GLOB == "GLOB"
FS_REGEX == "REGEX"

(***************************************************************************)
(* wildcardMatch(candidate, pattern): '*' matches any run of characters,   *)
(* '?' any single character, every other character itself.                 *)
(***************************************************************************)
RECURSIVE wildcardMatch(_, _)
wildcardMatch(s, p) ==
    IF p = <<>> THEN s = <<>>
    ELSE IF Head(p) = "*"
         THEN \/ wildcardMatch(s, Tail(p))
              \/ (s # <<>> /\ wildcardMatch(Tail(s), p))
    ELSE /\ s # <<>>
         /\ (Head(p) = "?" \/ Head(p) = Head(s))
         /\ wildcardMatch(Tail(s), Tail(p))

(***************************************************************************)
(* std::regex, extended syntax, for the patterns of the model: ordinary    *)
(* characters, '.', groups '(' ... ')' and the quantifiers '*', '+', '?'.  *)
(***************************************************************************)
RegexQuantifiers == {"*", "+", "?"}

\* index of the ')' closing the '(' at position i, or 0 when there is none.
RECURSIVE RegexClose(_, _, _)
RegexClose(t, i, depth) ==
    IF i > Len(t) THEN 0
    ELSE IF t[i] = "(" THEN RegexClose(t, i + 1, depth + 1)
    ELSE IF t[i] = ")"
         THEN IF depth = 1 THEN i ELSE RegexClose(t, i + 1, depth - 1)
    ELSE RegexClose(t, i + 1, depth)

\* the constructor std::regex(text, extended) returns normally (TRUE) or
\* throws std::regex_error (FALSE): a quantifier needs something to repeat
\* and every parenthesis its partner.  The empty pattern compiles, as in
\* libstdc++.
RECURSIVE RegexCompiles(_)
RegexCompiles(t) ==
    IF t = <<>> THEN TRUE
    ELSE IF Head(t) \in RegexQuantifiers \/ Head(t) = ")" THEN FALSE
    ELSE LET close == IF Head(t) = "(" THEN RegexClose(t, 1, 0) ELSE 1
             rest  == SubSeq(t, close + 1, Len(t))
             tail  == IF rest # <<>> /\ Head(rest) \in RegexQuantifiers
                      THEN Tail(rest) ELSE rest
         IN  /\ close # 0
             /\ (Head(t) = "(" => RegexCompiles(SubSeq(t, 2, close - 1)))
             /\ RegexCompiles(tail)

\* the positions of s reachable from a position of P by matching t.
RECURSIVE RegexRun(_, _, _)
RECURSIVE RegexStar(_, _, _)
RegexStar(a, s, P) ==
    LET Q == P \cup RegexRun(a, s, P)
    IN  IF Q = P THEN P ELSE RegexStar(a, s, Q)
RegexRun(t, s, P) ==
    IF t = <<>> THEN P
    ELSE LET close == IF Head(t) = "(" THEN RegexClose(t, 1, 0) ELSE 1
             atom  == SubSeq(t, 1, close)
             rest  == SubSeq(t, close + 1, Len(t))
             quant == IF rest # <<>> /\ Head(rest) \in RegexQuantifiers
                      THEN Head(rest) ELSE ""
             tail  == IF quant = "" THEN rest ELSE Tail(rest)
             once(Q) == IF Head(t) = "("
                        THEN RegexRun(SubSeq(t, 2, close - 1), s, Q)
                        ELSE {i + 1 : i \in {j \in Q : j <= Len(s)
                                       /\ (Head(t) = "." \/ s[j] = Head(t))}}
             after == IF quant = "" THEN once(P)
                      ELSE IF quant = "?" THEN P \cup once(P)
                      ELSE IF quant = "+" THEN RegexStar(atom, s, once(P))
                      ELSE RegexStar(atom, s, P)
         IN  RegexRun(tail, s, after)

\* std::regex_search in place of std::regex_match: some part of s matches.
regex_search(s, t) == RegexRun(t, s, 1..(Len(s) + 1)) # {}

\* std::regex_match(s, regex(text)): the whole of s matches.
regex_match(s, t) == (Len(s) + 1) \in RegexRun(t, s, {1})

(***************************************************************************)
(* Filter, GlobFilter, RegexFilter.                                        *)
(***************************************************************************)
\* Filter::Filter: the text, the inheritance flag and the axis; strategy
\* is the concrete class of the object (GlobFilter or RegexFilter).
Filter(text, inheritable, type, strategy) ==
    [mText |-> text, mInheritable |-> inheritable, mType |-> type,
     strategy |-> strategy]

\* GlobFilter::match and RegexFilter::match, dispatched on the class.
FilterMatch(f, s) ==
    IF f.strategy = FS_REGEX THEN regex_match(s, f.mText)
    ELSE wildcardMatch(s, f.mText)

\* toString(const Filter&): type "/" strategy ":" text.
toString(f) == <<f.mType, "/", f.strategy, ":">> \o f.mText

(***************************************************************************)
(* FilterClass: the name rules and the path rules, in insertion order.     *)
(***************************************************************************)
EmptyClass == [mNames |-> <<>>, mPaths |-> <<>>]

\* FilterClass::add that keeps a list free of duplicates (a set).
ClassAddNoDuplicates(c, f) ==
    IF f.mType = FT_NAME
    THEN IF \E i \in 1..Len(c.mNames) : c.mNames[i] = f THEN c
         ELSE [c EXCEPT !.mNames = Append(@, f)]
    ELSE IF \E i \in 1..Len(c.mPaths) : c.mPaths[i] = f THEN c
         ELSE [c EXCEPT !.mPaths = Append(@, f)]

ClassAdd(c, f) ==
    IF f.mType = FT_NAME THEN [c EXCEPT !.mNames = Append(@, f)]
    ELSE IF f.mType = FT_PATH THEN [c EXCEPT !.mPaths = Append(@, f)]
    ELSE c

\* FilterClass::clear that forgets the path list.
ClassClearNames(c) == [mNames |-> <<>>, mPaths |-> c.mPaths]

ClassClear(c) == [mNames |-> <<>>, mPaths |-> <<>>]

ClassEmpty(c) == c.mNames = <<>> /\ c.mPaths = <<>>

\* the loop of FilterClass::match without the skip of uninheritable rules.
RECURSIVE MatchListNoSkip(_, _, _)
MatchListNoSkip(fs, s, onlyInheritable) ==
    IF fs = <<>> THEN FALSE
    ELSE IF FilterMatch(Head(fs), s) THEN TRUE
    ELSE MatchListNoSkip(Tail(fs), s, onlyInheritable)

\* the loop of FilterClass::match leaving the list (break) at the first
\* uninheritable rule instead of going on (continue).
RECURSIVE MatchListBreakOnSkip(_, _, _)
MatchListBreakOnSkip(fs, s, onlyInheritable) ==
    IF fs = <<>> THEN FALSE
    ELSE IF onlyInheritable /\ ~Head(fs).mInheritable THEN FALSE
    ELSE IF FilterMatch(Head(fs), s) THEN TRUE
    ELSE MatchListBreakOnSkip(Tail(fs), s, onlyInheritable)

\* the loop of FilterClass::match with the test of the flag negated: the
\* uninheritable rules are skipped when all rules are asked for.
RECURSIVE MatchListSkipWhenAll(_, _, _)
MatchListSkipWhenAll(fs, s, onlyInheritable) ==
    IF fs = <<>> THEN FALSE
    ELSE IF ~onlyInheritable /\ ~Head(fs).mInheritable
         THEN MatchListSkipWhenAll(Tail(fs), s, onlyInheritable)
    ELSE IF FilterMatch(Head(fs), s) THEN TRUE
    ELSE MatchListSkipWhenAll(Tail(fs), s, onlyInheritable)

\* the loop of FilterClass::match over one list: TRUE at the first rule
\* that is not skipped and matches s.
RECURSIVE MatchList(_, _, _)
MatchList(fs, s, onlyInheritable) ==
    IF fs = <<>> THEN FALSE
    ELSE IF onlyInheritable /\ ~Head(fs).mInheritable
         THEN MatchList(Tail(fs), s, onlyInheritable)
    ELSE IF FilterMatch(Head(fs), s) THEN TRUE
    ELSE MatchList(Tail(fs), s, onlyInheritable)

\* FilterClass::match that tests every rule against the path.
ClassMatchPathOnly(c, p, onlyInheritable) ==
    IF MatchList(c.mPaths, p[2], onlyInheritable) THEN TRUE
    ELSE MatchList(c.mNames, p[2], onlyInheritable)

\* p is the pair <<name, path>>: p[1] is p.first, p[2] is p.second.
ClassMatch(c, p, onlyInheritable) ==
    IF MatchList(c.mPaths, p[2], onlyInheritable) THEN TRUE
    ELSE MatchList(c.mNames, p[1], onlyInheritable)

(***************************************************************************)
(* FilterChain::add.                                                       *)
(***************************************************************************)
\* isEmpty(m, n) over the characters m .. n-1 of text: w counts the
\* whitespace characters and the range is empty when w reaches n.
RECURSIVE CountSpace(_, _, _)
CountSpace(text, m, n) ==
    IF m < n THEN (IF isspace(text[m]) THEN 1 ELSE 0) + CountSpace(text, m + 1, n)
    ELSE 0

isEmpty(text, m, n) == n = m + CountSpace(text, m, n)

\* the first switch of add: the sign is '-' or '+'.
SignValid(c) == c \in {"-", "+"}

\* the first switch with both signs marking an exclusion.
SignExclusionBoth(c) == c \in {"-", "+"}

SignExclusion(c) == c = "-"

\* the second switch of add on the character after the sign: the flag, the
\* axis, and whether the character is consumed.
\* the second switch with the path token clearing the flag as 'N' does.
AxisInheritableNotPath(c) == c \notin {"N", "p"}

\* the second switch with 'n' falling into the flag of 'N'.
AxisInheritableLowerToo(c) == c \notin {"N", "n"}

AxisInheritable(c) == c # "N"

AxisType(c) == IF c = "p" THEN FT_PATH ELSE FT_NAME

AxisConsumed(c) == c \in {"N", "n", "p"}

\* the third switch of add: the strategy, and whether the character is
\* consumed.
StrategyRegex(c) == c = "r"

StrategyConsumed(c) == c \in {"g", "r"}

\* new GlobFilter(m, ...) and new RegexFilter(m, ...) for the const char*
\* m == text.data() + (m4 - 1): the text of the rule is the C string at m.
PatternAt(text, m4) == CString(SubSeq(text, m4, Len(text)))

\* the try block of add: threw tells that std::regex_error left the
\* constructor of RegexFilter.
NewFilter(pattern, inheritable, type, regex) ==
    IF regex
    THEN [threw |-> ~RegexCompiles(pattern),
          filter |-> Filter(pattern, inheritable, type, FS_REGEX)]
    ELSE [threw |-> FALSE,
          filter |-> Filter(pattern, inheritable, type, FS_GLOB)]

\* add without the catch clause: std::regex_error leaves add.
CatchNothing(made) == [ok |-> ~made.threw, threw |-> made.threw]

\* what the catch clause of add makes of the try block's outcome: ok is
\* whether add goes on to add the filter, threw whether an exception
\* leaves add.
CatchRegexError(made) == [ok |-> ~made.threw, threw |-> FALSE]

\* The parse of one line.  ok: add goes on to add filter to the class
\* exclusion names; otherwise add returns false (syntaxError), or lets an
\* exception out when threw.
ParseLine(text) ==
    LET n  == Len(text) + 1
        c0 == CharAt(text, 1)
        m1 == 2
        c1 == CharAt(text, m1)
        m2 == IF AxisConsumed(c1) THEN m1 + 1 ELSE m1
        c2 == CharAt(text, m2)
        m3 == IF StrategyConsumed(c2) THEN m2 + 1 ELSE m2
        m4 == m3 + 1
        made == NewFilter(PatternAt(text, m4), AxisInheritable(c1),
                          AxisType(c1), StrategyRegex(c2))
        caught == CatchRegexError(made)
        fail == [ok |-> FALSE, threw |-> FALSE, exclusion |-> FALSE,
                 filter |-> Filter(<<>>, TRUE, FT_NAME, FS_GLOB)]
    IN  IF ~SignValid(c0) THEN fail
        ELSE IF CharAt(text, m3) # ":" THEN fail
        ELSE IF isEmpty(text, m4, n) THEN fail
        ELSE [ok |-> caught.ok, threw |-> caught.threw,
              exclusion |-> SignExclusion(c0), filter |-> made.filter]

\* A chain is the pair of its classes.
Chain(ex, inc) == [mExclusions |-> ex, mInclusions |-> inc]

EmptyChain == Chain(EmptyClass, EmptyClass)

\* FilterChain::add on chain ch: the value returned, whether an exception
\* left the call, and the chain after.
ChainAdd(ch, text) ==
    LET r == ParseLine(text)
    IN  IF r.threw THEN [ret |-> FALSE, threw |-> TRUE, chain |-> ch]
        ELSE IF ~r.ok THEN [ret |-> FALSE, threw |-> FALSE, chain |-> ch]
        ELSE IF r.exclusion
             THEN [ret |-> TRUE, threw |-> FALSE,
                   chain |-> [ch EXCEPT !.mExclusions = ClassAdd(@, r.filter)]]
        ELSE [ret |-> TRUE, threw |-> FALSE,
              chain |-> [ch EXCEPT !.mInclusions = ClassAdd(@, r.filter)]]

\* FilterChain::clear, FilterChain::empty.
ChainClear(ch) ==
    Chain(ClassClear(ch.mExclusions), ClassClear(ch.mInclusions))

ChainEmpty(ch) == ClassEmpty(ch.mExclusions) /\ ClassEmpty(ch.mInclusions)

\* FilterChain::excluded, FilterChain::included.
excluded(ch, p, onlyInheritable) == ClassMatch(ch.mExclusions, p, onlyInheritable)

included(ch, p, onlyInheritable) == ClassMatch(ch.mInclusions, p, onlyInheritable)

(***************************************************************************)
(* FilterChain::load.                                                      *)
(***************************************************************************)
\* LoadLoop without the restore of the snapshot on a rejected line.
RECURSIVE LoadLoopNoRestore(_, _, _)
LoadLoopNoRestore(ch, saved, filters) ==
    IF filters = <<>> THEN [ret |-> TRUE, threw |-> FALSE, chain |-> ch]
    ELSE IF CharAt(Head(filters), 1) = "#"
         THEN LoadLoopNoRestore(ch, saved, Tail(filters))
    ELSE LET r == ChainAdd(ch, Head(filters))
         IN  IF r.threw THEN r
             ELSE IF ~r.ret
             THEN [ret |-> FALSE, threw |-> FALSE, chain |-> ch]
             ELSE LoadLoopNoRestore(r.chain, saved, Tail(filters))

\* LoadLoop that hands the comment lines to add as well.
RECURSIVE LoadLoopNoComments(_, _, _)
LoadLoopNoComments(ch, saved, filters) ==
    IF filters = <<>> THEN [ret |-> TRUE, threw |-> FALSE, chain |-> ch]
    ELSE LET r == ChainAdd(ch, Head(filters))
         IN  IF r.threw THEN r
             ELSE IF ~r.ret
             THEN [ret |-> FALSE, threw |-> FALSE,
                   chain |-> Chain(saved.mExclusions, saved.mInclusions)]
             ELSE LoadLoopNoComments(r.chain, saved, Tail(filters))

\* The loop over the lines read: ch is the live chain, saved the snapshot
\* held by the locals exclusions and inclusions.  An exception out of add
\* would leave load at once, past the restore.
RECURSIVE LoadLoop(_, _, _)
LoadLoop(ch, saved, filters) ==
    IF filters = <<>> THEN [ret |-> TRUE, threw |-> FALSE, chain |-> ch]
    ELSE IF CharAt(Head(filters), 1) = "#"
         THEN LoadLoop(ch, saved, Tail(filters))
    ELSE LET r == ChainAdd(ch, Head(filters))
         IN  IF r.threw THEN r
             ELSE IF ~r.ret
             THEN [ret |-> FALSE, threw |-> FALSE,
                   chain |-> Chain(saved.mExclusions, saved.mInclusions)]
             ELSE LoadLoop(r.chain, saved, Tail(filters))

\* ChainLoad that takes the snapshot and clears before it looks at the
\* result of readLines.
ChainLoadClearsFirst(ch, readOk, filters) ==
    IF ~readOk THEN [ret |-> FALSE, threw |-> FALSE, chain |-> EmptyChain]
    ELSE LoadLoop(EmptyChain, Chain(ch.mExclusions, ch.mInclusions), filters)

\* ChainLoad that snapshots and clears the exclusions only: the inclusions
\* held before stay live.
ChainLoadKeepsInclusions(ch, readOk, filters) ==
    IF ~readOk THEN [ret |-> FALSE, threw |-> FALSE, chain |-> ch]
    ELSE LoadLoop(Chain(EmptyClass, ch.mInclusions),
                  Chain(ch.mExclusions, ch.mInclusions), filters)

\* ChainLoad that keeps the rules held before (a merge): the members are
\* copied into the snapshot and not cleared.
ChainLoadMerge(ch, readOk, filters) ==
    IF ~readOk THEN [ret |-> FALSE, threw |-> FALSE, chain |-> ch]
    ELSE LoadLoop(ch, Chain(ch.mExclusions, ch.mInclusions), filters)

\* readOk is the result of readLines and filters the lines it produced.
\* The snapshot is moved out of the members, which are then cleared.
ChainLoad(ch, readOk, filters) ==
    IF ~readOk THEN [ret |-> FALSE, threw |-> FALSE, chain |-> ch]
    ELSE LET saved == Chain(ch.mExclusions, ch.mInclusions)
             moved == Chain(EmptyClass, EmptyClass)
         IN  LoadLoop(ChainClear(moved), saved, filters)

(***************************************************************************)
(* The rule lines and the candidates of the model.                         *)
(***************************************************************************)
L_ExNSecret == <<"-", "N", ":", "s", "e", "c", "r", "e", "t">>
L_ExnSecret == <<"-", "n", ":", "s", "e", "c", "r", "e", "t">>
L_ExSecret == <<"-", ":", "s", "e", "c", "r", "e", "t">>
L_ExPBuildOut == <<"-", "p", ":", "b", "u", "i", "l", "d", "/", "o", "u", "t">>
L_ExNOut == <<"-", "N", ":", "o", "u", "t">>
L_ExNX == <<"-", "N", ":", "x">>
L_InNX == <<"+", "N", ":", "x">>
L_InPX == <<"+", "p", ":", "x">>
L_ExGTmp == <<"-", "g", ":", "*", ".", "t", "m", "p">>
L_ExRA == <<"-", "r", ":", "a">>
L_ExNul == <<"-", ":", "x", NUL, "y">>
L_Empty == <<>>
L_BadSign == <<"x", ":", "f", "o", "o">>
L_NoPattern == <<"-", ":">>
L_BlankPattern == <<"-", " ", ":">>
L_UpperPath == <<"-", "P", ":", "x">>
L_TwoAxes == <<"-", "N", "n", ":", "x">>
L_StrategyFirst == <<"-", "g", "N", ":", "x">>
L_NoColon == <<"-", "N", "x">>
L_BadRegex == <<"-", "r", ":", "(">>
L_CommentBad == <<"#", "-", " ", ":">>

\* lines add accepts.
ValidLines ==
    {L_ExNSecret, L_ExnSecret, L_ExSecret, L_ExPBuildOut, L_ExNOut, L_ExNX,
     L_InNX, L_InPX, L_ExGTmp, L_ExRA, L_ExNul}

\* lines add rejects, one for each cause.
InvalidLines ==
    {L_Empty, L_BadSign, L_NoPattern, L_BlankPattern, L_UpperPath, L_TwoAxes,
     L_StrategyFirst, L_NoColon, L_BadRegex}

\* the lines handed to add.
AddLines == ValidLines \cup InvalidLines

\* the lines readLines produces for load: never an empty line.
LoadLines == {L_CommentBad, L_ExNX, L_InPX, L_BadRegex}

S_secret == <<"s", "e", "c", "r", "e", "t">>
S_out == <<"o", "u", "t">>
S_buildOut == <<"b", "u", "i", "l", "d", "/", "o", "u", "t">>
S_elsewhereOut == <<"e", "l", "s", "e", "w", "h", "e", "r", "e", "/", "o", "u", "t">>
S_x == <<"x">>
S_aTmp == <<"a", ".", "t", "m", "p">>
S_aTmpx == <<"a", ".", "t", "m", "p", "x">>
S_cat == <<"c", "a", "t">>
S_a == <<"a">>

\* the pairs <<name, path>> a scanner asks about.
Candidates ==
    {<<S_secret, S_secret>>, <<S_out, S_buildOut>>, <<S_out, S_elsewhereOut>>,
     <<S_x, S_x>>, <<S_x, S_buildOut>>, <<S_aTmp, S_aTmp>>,
     <<S_aTmpx, S_aTmpx>>, <<S_cat, S_cat>>, <<S_a, S_a>>}

\* every (pair, onlyInheritable) a query can be asked with.
Queries == Candidates \X BOOLEAN

\* the sequences over S of length at most n.
SeqUpTo(S, n) == UNION {[1..k -> S] : k \in 0..n}

(***************************************************************************)
(* The chain as a state machine.                                           *)
(***************************************************************************)
chain == Chain(mExclusions, mInclusions)

preChain == Chain(preExclusions, preInclusions)

ClassSize(c) == Len(c.mNames) + Len(c.mPaths)

ChainSize(ch) == ClassSize(ch.mExclusions) + ClassSize(ch.mInclusions)

\* frame is the activation of a running load: its position pc, the lines
\* read (filters), the index of the line the loop is at (next) and the
\* locals exclusions and inclusions.  No load is running when pc is idle.
IdleFrame ==
    [pc |-> "idle", filters |-> <<>>, next |-> 1,
     exclusions |-> EmptyClass, inclusions |-> EmptyClass]

\* FilterClass::FilterClass, FilterChain::FilterChain: nothing is held.
Init ==
    /\ mExclusions = EmptyClass
    /\ mInclusions = EmptyClass
    /\ lastOp = "init"
    /\ lastArg = <<>>
    /\ lastRet = FALSE
    /\ lastThrew = FALSE
    /\ preExclusions = EmptyClass
    /\ preInclusions = EmptyClass
    /\ frame = IdleFrame

\* one call: op and arg name it, r is its result on the current chain.
Call(op, arg, r) ==
    /\ mExclusions' = r.chain.mExclusions
    /\ mInclusions' = r.chain.mInclusions
    /\ lastOp' = op
    /\ lastArg' = arg
    /\ lastRet' = r.ret
    /\ lastThrew' = r.threw
    /\ preExclusions' = mExclusions
    /\ preInclusions' = mInclusions
    /\ frame' = frame

Add ==
    /\ ChainSize(chain) < MaxRules
    /\ \E text \in AddLines : Call("add", text, ChainAdd(chain, text))

Clear ==
    Call("clear", <<>>,
         [ret |-> TRUE, threw |-> FALSE, chain |-> ChainClear(chain)])

\* load when readLines succeeds and hands over filters.
Load ==
    \E filters \in SeqUpTo(LoadLines, MaxLines) :
        Call("load", [readOk |-> TRUE, filters |-> filters],
             ChainLoad(chain, TRUE, filters))

\* load when readLines fails: what it read is never looked at.
LoadReadFails ==
    Call("load", [readOk |-> FALSE, filters |-> <<>>],
         ChainLoad(chain, FALSE, <<>>))

Next == Add \/ Clear \/ Load \/ LoadReadFails

Spec == Init /\ [][Next]_vars

(***************************************************************************)
(* add as a function of its line: a fresh chain is handed one line, drawn  *)
(* from every string over GrammarAlphabet of length at most MaxLineLen     *)
(* and from the longer lines of GrammarExtraLines.                         *)
(***************************************************************************)
GrammarAlphabet == {"-", "+", "N", "n", "p", "g", "r", ":", " ", NUL, "x"}

L_RegexGroup == <<"-", "N", "r", ":", "(", "x", ")", "*">>
L_RegexNulGroup == <<"-", "r", ":", "(", NUL, ")">>
L_RegexNulParen == <<"-", "r", ":", "x", NUL, "(">>
L_TabPattern == <<"+", "p", "g", ":", "\t", " ", "\n">>
L_ExPLog == <<"-", "p", ":", "*", ".", "l", "o", "g">>
L_ExSpaced == <<"-", "n", "g", ":", " ", "x", ":", " ">>

GrammarExtraLines ==
    AddLines \cup {L_RegexGroup, L_RegexNulGroup, L_RegexNulParen, L_TabPattern,
                   L_ExPLog, L_ExSpaced}

GrammarAdd ==
    /\ lastOp = "init"
    /\ \/ \E k \in 0..MaxLineLen : \E text \in [1..k -> GrammarAlphabet] :
              Call("add", text, ChainAdd(chain, text))
       \/ \E text \in GrammarExtraLines :
              Call("add", text, ChainAdd(chain, text))

\* the queries leave the chain as it is; the call is recorded.
GrammarQuery ==
    /\ lastOp = "add"
    /\ lastRet
    /\ Call("empty", <<>>,
            [ret |-> ChainEmpty(chain), threw |-> FALSE, chain |-> chain])

NextGrammar == GrammarAdd \/ GrammarQuery

SpecGrammar == Init /\ [][NextGrammar]_vars

(***************************************************************************)
(* load after load: the chain is only ever loaded, and each load records   *)
(* how many loads in a row failed right before it.                         *)
(***************************************************************************)
FailedBefore ==
    IF lastOp # "load" \/ lastRet THEN 0 ELSE lastArg.failedBefore + 1

RetryLoad ==
    \E filters \in SeqUpTo(LoadLines, MaxLines) :
        LET r == ChainLoad(chain, TRUE, filters)
        IN  /\ r.ret \/ FailedBefore < MaxFailedLoads
            /\ Call("load", [readOk |-> TRUE, filters |-> filters,
                             failedBefore |-> FailedBefore], r)

RetryLoadReadFails ==
    /\ FailedBefore < MaxFailedLoads
    /\ Call("load", [readOk |-> FALSE, filters |-> <<>>,
                     failedBefore |-> FailedBefore],
            ChainLoad(chain, FALSE, <<>>))

NextRetry == RetryLoad \/ RetryLoadReadFails

SpecRetry == Init /\ [][NextRetry]_vars

(***************************************************************************)
(* load statement by statement: what the members hold between two          *)
(* statements of a running load is what a query made at that point reads.  *)
(***************************************************************************)
\* FilterClass local(std::move(member)): the local holds the rules of the
\* member.
SnapshotLost(c) == EmptyClass

SnapshotOf(c) == c

\* the member after std::move took its lists: both are empty.
MovedFrom(c) == EmptyClass

\* the history while a load runs: the call and the rule sets at the call.
Running(fr) ==
    /\ frame' = fr
    /\ UNCHANGED <<lastOp, lastArg, lastRet, lastThrew,
                   preExclusions, preInclusions>>

\* load is entered and readLines has run: a failed read returns at once.
StepRead ==
    /\ frame.pc = "idle"
    /\ \/ \E filters \in SeqUpTo(LoadLines, MaxLines) :
              /\ frame' = [IdleFrame EXCEPT !.pc = "saveExclusions",
                                             !.filters = filters]
              /\ lastOp' = "loading"
              /\ lastArg' = [readOk |-> TRUE, filters |-> filters]
              /\ lastRet' = FALSE
              /\ lastThrew' = FALSE
              /\ preExclusions' = mExclusions
              /\ preInclusions' = mInclusions
              /\ UNCHANGED <<mExclusions, mInclusions>>
       \/ Call("load", [readOk |-> FALSE, filters |-> <<>>],
               [ret |-> FALSE, threw |-> FALSE, chain |-> chain])

\* FilterClass exclusions(std::move(mExclusions)).
StepSaveExclusions ==
    /\ frame.pc = "saveExclusions"
    /\ mExclusions' = MovedFrom(mExclusions)
    /\ UNCHANGED mInclusions
    /\ Running([frame EXCEPT !.pc = "saveInclusions",
                             !.exclusions = SnapshotOf(mExclusions)])

\* FilterClass inclusions(std::move(mInclusions)).
StepSaveInclusions ==
    /\ frame.pc = "saveInclusions"
    /\ mInclusions' = MovedFrom(mInclusions)
    /\ UNCHANGED mExclusions
    /\ Running([frame EXCEPT !.pc = "clear",
                             !.inclusions = SnapshotOf(mInclusions)])

\* clear().
StepClear ==
    /\ frame.pc = "clear"
    /\ mExclusions' = ChainClear(chain).mExclusions
    /\ mInclusions' = ChainClear(chain).mInclusions
    /\ Running([frame EXCEPT !.pc = "loop"])

\* one turn of the loop: a comment is passed over, an accepted line adds
\* its rule, a rejected line leads to the restore.
StepLine ==
    /\ frame.pc = "loop"
    /\ frame.next <= Len(frame.filters)
    /\ LET f == frame.filters[frame.next]
           r == ChainAdd(chain, f)
       IN  IF CharAt(f, 1) = "#"
           THEN /\ UNCHANGED <<mExclusions, mInclusions>>
                /\ Running([frame EXCEPT !.next = @ + 1])
           ELSE IF r.ret
           THEN /\ mExclusions' = r.chain.mExclusions
                /\ mInclusions' = r.chain.mInclusions
                /\ Running([frame EXCEPT !.next = @ + 1])
           ELSE /\ UNCHANGED <<mExclusions, mInclusions>>
                /\ Running([frame EXCEPT !.pc = "restoreExclusions"])

\* mExclusions = std::move(exclusions); the local is not read again.
StepRestoreExclusions ==
    /\ frame.pc = "restoreExclusions"
    /\ mExclusions' = frame.exclusions
    /\ UNCHANGED mInclusions
    /\ Running([frame EXCEPT !.pc = "restoreInclusions"])

\* mInclusions = std::move(inclusions); return false.
StepRestoreInclusions ==
    /\ frame.pc = "restoreInclusions"
    /\ mInclusions' = frame.inclusions
    /\ UNCHANGED <<mExclusions, lastArg, lastThrew, preExclusions, preInclusions>>
    /\ lastOp' = "load"
    /\ lastRet' = FALSE
    /\ frame' = IdleFrame

\* the loop is over: return true.
StepCommit ==
    /\ frame.pc = "loop"
    /\ frame.next > Len(frame.filters)
    /\ UNCHANGED <<mExclusions, mInclusions, lastArg, lastThrew,
                   preExclusions, preInclusions>>
    /\ lastOp' = "load"
    /\ lastRet' = TRUE
    /\ frame' = IdleFrame

NextSteps ==
    \/ StepRead
    \/ StepSaveExclusions
    \/ StepSaveInclusions
    \/ StepClear
    \/ StepLine
    \/ StepRestoreExclusions
    \/ StepRestoreInclusions
    \/ StepCommit

SpecSteps == Init /\ [][NextSteps]_vars

(***************************************************************************)
(* Properties of load and add.                                             *)
(***************************************************************************)
IsComment(line) == CharAt(line, 1) = "#"

\* the lines of filters that are not comments, in order.
NonComment(filters) == SelectSeq(filters, LAMBDA l : ~IsComment(l))

\* add called on each line in order, from chain ch.
RECURSIVE AddEach(_, _)
AddEach(ch, lines) ==
    IF lines = <<>> THEN ch ELSE AddEach(ChainAdd(ch, Head(lines)).chain, Tail(lines))

\* add accepts the line on a fresh chain.
Accepted(line) == ChainAdd(EmptyChain, line).ret

\* add accepts every one of the lines.
AllAccepted(lines) == \A i \in 1..Len(lines) : Accepted(lines[i])

LoadRan == lastOp = "load" /\ lastArg.readOk

SomeLineRejected ==
    \E i \in 1..Len(lastArg.filters) :
        ~IsComment(lastArg.filters[i]) /\ ~Accepted(lastArg.filters[i])

SameAnswers(ch1, ch2) ==
    \A q \in Queries :
        /\ excluded(ch1, q[1], q[2]) = excluded(ch2, q[1], q[2])
        /\ included(ch1, q[1], q[2]) = included(ch2, q[1], q[2])

\* C1: a load whose lines hold a non-comment line that add rejects returns
\* false, every query answers as before the call, and the rule sets are
\* those held before the call (no rule of an earlier valid line remains).
C1_FailedLoadRestores ==
    (LoadRan /\ SomeLineRejected) =>
        /\ lastRet = FALSE
        /\ SameAnswers(chain, preChain)
        /\ chain = preChain

\* C1 witness: a load failed on its second line after a valid first line,
\* on a chain that held a rule.
C1_Witness ==
    /\ LoadRan
    /\ Len(lastArg.filters) = 2
    /\ ~IsComment(lastArg.filters[1]) /\ Accepted(lastArg.filters[1])
    /\ ~Accepted(lastArg.filters[2])
    /\ ~ChainEmpty(preChain)
    /\ lastRet = FALSE

\* C2: a load whose non-comment lines are all accepted returns true and
\* leaves exactly the rules that add builds from them on an empty chain.
C2_LoadReplaces ==
    (LoadRan /\ ~SomeLineRejected) =>
        /\ lastRet = TRUE
        /\ chain = AddEach(EmptyChain, NonComment(lastArg.filters))

\* C2 witness: a successful load of a rule line over a chain that held
\* other rules.
C2_Witness ==
    /\ LoadRan
    /\ lastRet = TRUE
    /\ NonComment(lastArg.filters) # <<>>
    /\ ~ChainEmpty(preChain)
    /\ ~ClassEmpty(preExclusions) /\ ClassEmpty(mExclusions)

\* C3: whenever add returns false the rule sets are those held before the
\* call, and no exception leaves add.
C3_FailedAddUnchanged ==
    lastOp = "add" =>
        /\ ~lastThrew
        /\ (lastRet = FALSE => chain = preChain)

\* C3 witness: add rejected a regex that does not compile, on a chain that
\* held a rule.
C3_Witness ==
    /\ lastOp = "add"
    /\ lastArg = L_BadRegex
    /\ lastRet = FALSE
    /\ ~ChainEmpty(preChain)

\* what the claim's grammar says of a line: a sign, at most one axis token,
\* at most one strategy token, the colon, and a pattern (every character
\* after the colon) with a non-whitespace character that compiles when the
\* strategy token is r.
GrammarAccepts(line) ==
    LET n  == Len(line)
        i2 == IF n >= 2 /\ line[2] \in {"N", "n", "p"} THEN 3 ELSE 2
        i3 == IF n >= i2 /\ line[i2] \in {"g", "r"} THEN i2 + 1 ELSE i2
        pattern == SubSeq(line, i3 + 1, n)
    IN  /\ n >= 1
        /\ line[1] \in {"+", "-"}
        /\ n >= i3
        /\ line[i3] = ":"
        /\ \E k \in 1..Len(pattern) : ~isspace(pattern[k])
        /\ (line[i3 - 1] = "r" /\ i3 > i2) => RegexCompiles(pattern)

\* C4: add returns true if and only if the line follows the grammar: sign,
\* optional axis token, optional strategy token, colon, and a pattern with
\* a non-whitespace character that compiles when the strategy is r.
C4_AddIffGrammar ==
    lastOp = "add" => (lastRet = GrammarAccepts(lastArg))

\* C4 on the lines that hold no NUL character: there add returns true
\* exactly when the grammar accepts the line.
C4_AddIffGrammarNulFree ==
    (lastOp = "add" /\ \A i \in 1..Len(lastArg) : lastArg[i] # NUL) =>
        (lastRet = GrammarAccepts(lastArg))

\* C4, the examples: the empty line, "x:foo", "-:", "- :", an uppercase
\* path token, two axis tokens and the strategy token before the axis
\* token are all rejected.
C4_ExamplesRejected ==
    (lastOp = "add" /\ lastArg \in {L_Empty, L_BadSign, L_NoPattern,
                                    L_BlankPattern, L_UpperPath, L_TwoAxes,
                                    L_StrategyFirst})
        => lastRet = FALSE

Grew(old, new) == Len(new) = Len(old) + 1 /\ SubSeq(new, 1, Len(old)) = old

\* C5: a successful add appends one Filter at the end of the list its sign
\* and axis name (exclusions for '-', inclusions for '+'; paths for 'p',
\* names otherwise); the three other lists are unchanged.
C5_AddAppendsOne ==
    (lastOp = "add" /\ lastRet) =>
        LET toPaths == CharAt(lastArg, 2) = "p"
            target == IF lastArg[1] = "-" THEN mExclusions ELSE mInclusions
            before == IF lastArg[1] = "-" THEN preExclusions ELSE preInclusions
        IN  /\ lastArg[1] = "-" => mInclusions = preInclusions
            /\ lastArg[1] = "+" => mExclusions = preExclusions
            /\ toPaths => /\ target.mNames = before.mNames
                          /\ Grew(before.mPaths, target.mPaths)
                          /\ target.mPaths[Len(target.mPaths)].mType = FT_PATH
            /\ ~toPaths => /\ target.mPaths = before.mPaths
                           /\ Grew(before.mNames, target.mNames)
                           /\ target.mNames[Len(target.mNames)].mType = FT_NAME

\* C5 witness: the same line was added twice and the list holds the rule
\* twice.
C5_Witness ==
    /\ lastOp = "add" /\ lastRet
    /\ lastArg = L_ExNX
    /\ Len(mExclusions.mNames) = 2
    /\ mExclusions.mNames[1] = mExclusions.mNames[2]

\* the rule of a chain that holds one rule.
OnlyRule(ch) ==
    CHOOSE f \in {ch.mExclusions.mNames[i] : i \in 1..Len(ch.mExclusions.mNames)}
             \cup {ch.mExclusions.mPaths[i] : i \in 1..Len(ch.mExclusions.mPaths)}
             \cup {ch.mInclusions.mNames[i] : i \in 1..Len(ch.mInclusions.mNames)}
             \cup {ch.mInclusions.mPaths[i] : i \in 1..Len(ch.mInclusions.mPaths)}
        : TRUE

\* add accepted the line on a chain that held nothing.
AddedAlone == lastOp = "add" /\ lastRet /\ ChainEmpty(preChain)

\* C6: the axis token of an accepted line fixes axis and flag: N a name
\* rule not inheritable, n a name rule inheritable, p a path rule
\* inheritable, none a name rule inheritable; a token present takes one
\* character and an absent one none (the strategy token is read right
\* after).
C6_AxisToken ==
    AddedAlone =>
        LET c == lastArg[2]
            f == OnlyRule(chain)
            present == c \in {"N", "n", "p"}
            next == IF present THEN lastArg[3] ELSE c
        IN  /\ ChainSize(chain) = 1
            /\ c = "N" => (f.mType = FT_NAME /\ ~f.mInheritable)
            /\ c = "n" => (f.mType = FT_NAME /\ f.mInheritable)
            /\ c = "p" => (f.mType = FT_PATH /\ f.mInheritable)
            /\ ~present => (f.mType = FT_NAME /\ f.mInheritable)
            /\ next \in {"g", "r", ":"}
            /\ (f.strategy = FS_REGEX) = (next = "r")

\* C6 witness: each of the four cases of the axis token was accepted; the
\* state is one where n made an inheritable name rule.
C6_Witness ==
    /\ AddedAlone
    /\ lastArg[2] = "n"
    /\ OnlyRule(chain).mType = FT_NAME
    /\ OnlyRule(chain).mInheritable

\* the answer of the direction the line's sign names.
Answer(ch, line, p, onlyInheritable) ==
    IF line[1] = "-" THEN excluded(ch, p, onlyInheritable)
    ELSE included(ch, p, onlyInheritable)

\* C7: a rule added with N matches when onlyInheritable is false and is
\* skipped when it is true; a rule added with n or with no axis token
\* answers the same under both values.  After add("-N:secret") alone,
\* excluded("secret", "secret", false) is true and with true it is false;
\* after "-n:secret" or "-:secret" both are true.
C7_InheritanceGating ==
    AddedAlone =>
        /\ \A p \in Candidates :
              IF lastArg[2] = "N"
              THEN /\ ~Answer(chain, lastArg, p, TRUE)
                   /\ Answer(chain, lastArg, p, FALSE)
                        = FilterMatch(OnlyRule(chain), p[1])
              ELSE IF lastArg[2] # "p"
              THEN /\ Answer(chain, lastArg, p, TRUE)
                        = FilterMatch(OnlyRule(chain), p[1])
                   /\ Answer(chain, lastArg, p, FALSE)
                        = FilterMatch(OnlyRule(chain), p[1])
              ELSE TRUE
        /\ lastArg = L_ExNSecret =>
              /\ excluded(chain, <<S_secret, S_secret>>, FALSE)
              /\ ~excluded(chain, <<S_secret, S_secret>>, TRUE)
        /\ lastArg \in {L_ExnSecret, L_ExSecret} =>
              /\ excluded(chain, <<S_secret, S_secret>>, FALSE)
              /\ excluded(chain, <<S_secret, S_secret>>, TRUE)

\* C7 witness: "-N:secret" was added alone.
C7_Witness == AddedAlone /\ lastArg = L_ExNSecret

\* C8: a path rule is tested against the candidate's path only and a name
\* rule against its name only.  After add("-p:build/out") alone, the pair
\* (out, build/out) is excluded and (out, elsewhere/out) is not; after
\* add("-N:out") alone both are.
C8_AxisSeparation ==
    AddedAlone =>
        /\ \A p \in Candidates :
              Answer(chain, lastArg, p, FALSE)
                = FilterMatch(OnlyRule(chain), IF lastArg[2] = "p" THEN p[2] ELSE p[1])
        /\ lastArg = L_ExPBuildOut =>
              /\ excluded(chain, <<S_out, S_buildOut>>, FALSE)
              /\ ~excluded(chain, <<S_out, S_elsewhereOut>>, FALSE)
        /\ lastArg = L_ExNOut =>
              /\ excluded(chain, <<S_out, S_buildOut>>, FALSE)
              /\ excluded(chain, <<S_out, S_elsewhereOut>>, FALSE)

\* C8 witness: "-p:build/out" was added alone.
C8_Witness == AddedAlone /\ lastArg = L_ExPBuildOut

\* C9: excluded depends on the '-' rules only and included on the '+'
\* rules only: an accepted add of one sign changes no answer and no rule
\* of the other direction, and after add("-N:x"), add("+N:x") the
\* candidate x is excluded and included at once.
C9_DirectionalIndependence ==
    (lastOp = "add" /\ lastRet) =>
        /\ lastArg[1] = "-" =>
              /\ mInclusions = preInclusions
              /\ \A q \in Queries :
                    included(chain, q[1], q[2]) = included(preChain, q[1], q[2])
        /\ lastArg[1] = "+" =>
              /\ mExclusions = preExclusions
              /\ \A q \in Queries :
                    excluded(chain, q[1], q[2]) = excluded(preChain, q[1], q[2])
        /\ (lastArg = L_InNX /\ preChain = AddEach(EmptyChain, <<L_ExNX>>)) =>
              /\ excluded(chain, <<S_x, S_x>>, FALSE)
              /\ included(chain, <<S_x, S_x>>, FALSE)

\* C9 witness: "+N:x" was added to the chain that held "-N:x".
C9_Witness ==
    /\ lastOp = "add" /\ lastRet
    /\ lastArg = L_InNX
    /\ preChain = AddEach(EmptyChain, <<L_ExNX>>)

\* C10: after clear the chain is empty, every query answers false, and a
\* further clear changes nothing.
C10_ClearEmpties ==
    lastOp = "clear" =>
        /\ ChainEmpty(chain)
        /\ \A q \in Queries :
              ~excluded(chain, q[1], q[2]) /\ ~included(chain, q[1], q[2])
        /\ ChainClear(chain) = chain

\* C10 witness: clear ran on a chain that held a path rule to exclude and
\* a rule to include.
C10_Witness ==
    /\ lastOp = "clear"
    /\ preExclusions.mPaths # <<>>
    /\ ~ClassEmpty(preInclusions)

\* C11: load skips a line that starts with '#' without handing it to add:
\* the load returns and leaves what the same load without its comment
\* lines does, whatever follows the '#', and a load of comment lines only
\* (or of no line) returns true and leaves the chain empty.
C11_CommentsSkipped ==
    LoadRan =>
        LET bare == ChainLoad(preChain, TRUE, NonComment(lastArg.filters))
        IN  /\ lastRet = bare.ret
            /\ chain = bare.chain
            /\ lastRet = AllAccepted(NonComment(lastArg.filters))
            /\ NonComment(lastArg.filters) = <<>> =>
                  (lastRet = TRUE /\ ChainEmpty(chain))

\* C11 witness: a load of two comment lines, each an invalid rule after
\* its '#', succeeded and emptied a chain that held rules.
C11_Witness ==
    /\ LoadRan
    /\ lastArg.filters = <<L_CommentBad, L_CommentBad>>
    /\ ~Accepted(Tail(L_CommentBad))
    /\ ~ChainEmpty(preChain)
    /\ lastRet = TRUE
    /\ ChainEmpty(chain)

\* C12: when readLines fails, load returns false and the rule sets are
\* those held before the call.
C12_ReadFailureUnchanged ==
    (lastOp = "load" /\ ~lastArg.readOk) =>
        /\ lastRet = FALSE
        /\ ~lastThrew
        /\ chain = preChain

\* C12 witness: the read failed on a chain that held rules.
C12_Witness ==
    /\ lastOp = "load"
    /\ ~lastArg.readOk
    /\ ~ChainEmpty(chain)
    /\ lastRet = FALSE

\* C13: whether a load returns true depends on its lines only, not on the
\* rules held nor on the loads that failed before: after any number of
\* failed loads, a load whose non-comment lines are all valid returns true
\* and installs exactly the rules of its lines.
C13_FailedLoadNeverBlocks ==
    LoadRan =>
        /\ lastRet = AllAccepted(NonComment(lastArg.filters))
        /\ (lastArg.failedBefore > 0 /\ AllAccepted(NonComment(lastArg.filters)))
              => /\ lastRet = TRUE
                 /\ chain = AddEach(EmptyChain, NonComment(lastArg.filters))

\* C13 witness: a load of rule lines succeeded right after MaxFailedLoads
\* failed loads, on a chain that held rules, and installed other rules.
C13_Witness ==
    /\ LoadRan
    /\ lastArg.failedBefore = MaxFailedLoads
    /\ lastRet = TRUE
    /\ ~ClassEmpty(preInclusions)
    /\ NonComment(lastArg.filters) # <<>>
    /\ chain # preChain

\* the characters the strategies of the model give a meaning to.
PatternSpecials == {"*", "?", ".", "(", ")", "+"}

IsLiteral(text) == \A i \in 1..Len(text) : text[i] \notin PatternSpecials

\* C14: both strategies match the whole candidate, never a part of it: a
\* rule alone whose text has no special character matches exactly the
\* candidates equal to its text; after add("-g:*.tmp") the name a.tmp is
\* excluded and a.tmpx is not; after add("-r:a") the name a is excluded
\* and cat is not.
C14_WholeStringMatch ==
    AddedAlone =>
        /\ IsLiteral(OnlyRule(chain).mText) =>
              \A p \in Candidates :
                  Answer(chain, lastArg, p, FALSE)
                    = ((IF lastArg[2] = "p" THEN p[2] ELSE p[1])
                         = OnlyRule(chain).mText)
        /\ lastArg = L_ExGTmp =>
              /\ OnlyRule(chain).strategy = FS_GLOB
              /\ excluded(chain, <<S_aTmp, S_aTmp>>, FALSE)
              /\ ~excluded(chain, <<S_aTmpx, S_aTmpx>>, FALSE)
        /\ lastArg = L_ExRA =>
              /\ OnlyRule(chain).strategy = FS_REGEX
              /\ excluded(chain, <<S_a, S_a>>, FALSE)
              /\ ~excluded(chain, <<S_cat, S_cat>>, FALSE)

\* C14 witness: "-r:a" was added alone and the candidate cat, which holds
\* an a, is not excluded.
C14_Witness ==
    /\ AddedAlone
    /\ lastArg = L_ExRA
    /\ \E i \in 1..Len(S_cat) : S_cat[i] = "a"
    /\ ~excluded(chain, <<S_cat, S_cat>>, FALSE)

\* the position of the first ':' of a line that has one.
Colon(line) == CHOOSE i \in 1..Len(line) :
                   line[i] = ":" /\ \A j \in 1..(i - 1) : line[j] # ":"

\* what the claim says of the rule of an accepted line: the text is every
\* character after the colon, the strategy is Regex for the token r and
\* Glob otherwise, and the rendering shows the axis, the strategy and that
\* text.
RoundTrips(line, f) ==
    LET after == SubSeq(line, Colon(line) + 1, Len(line))
        strategy == IF line[Colon(line) - 1] = "r" THEN FS_REGEX ELSE FS_GLOB
        type == IF line[2] = "p" THEN FT_PATH ELSE FT_NAME
    IN  /\ f.mText = after
        /\ f.strategy = strategy
        /\ toString(f) = <<type, "/", strategy, ":">> \o after

\* C15: the rule of an accepted line holds every character after the
\* colon, unchanged, with strategy Regex for r and Glob for g or no token,
\* and its rendering reproduces them; "-p:*.log" gives PATH, GLOB, "*.log".
C15_RoundTrip ==
    AddedAlone =>
        /\ RoundTrips(lastArg, OnlyRule(chain))
        /\ lastArg = L_ExPLog =>
              toString(OnlyRule(chain))
                = <<FT_PATH, "/", FS_GLOB, ":", "*", ".", "l", "o", "g">>

\* C15 on the lines that hold no NUL character: there the round trip
\* holds, leading and trailing whitespace included.
C15_RoundTripNulFree ==
    (AddedAlone /\ \A i \in 1..Len(lastArg) : lastArg[i] # NUL) =>
        /\ RoundTrips(lastArg, OnlyRule(chain))
        /\ lastArg = L_ExPLog =>
              toString(OnlyRule(chain))
                = <<FT_PATH, "/", FS_GLOB, ":", "*", ".", "l", "o", "g">>

\* some rule of the list that is not skipped matches s.
SomeRuleMatches(fs, s, onlyInheritable) ==
    \E i \in 1..Len(fs) :
        /\ ~(onlyInheritable /\ ~fs[i].mInheritable)
        /\ FilterMatch(fs[i], s)

\* the orders the rules of a list can be put in.
Reorderings(fs) ==
    {[i \in 1..Len(fs) |-> fs[f[i]]] :
        f \in {g \in [1..Len(fs) -> 1..Len(fs)] :
                 \A i, j \in 1..Len(fs) : g[i] = g[j] => i = j}}

\* the property C16 states of one class.
OrderFree(c) ==
    \A q \in Queries :
        /\ ClassMatch(c, q[1], q[2])
             = (\/ SomeRuleMatches(c.mPaths, q[1][2], q[2])
                \/ SomeRuleMatches(c.mNames, q[1][1], q[2]))
        /\ \A names \in Reorderings(c.mNames), paths \in Reorderings(c.mPaths) :
              ClassMatch([mNames |-> names, mPaths |-> paths], q[1], q[2])
                = ClassMatch(c, q[1], q[2])

\* C16: the answer of FilterClass::match is the OR over the rules that are
\* not skipped (path rules on the path, name rules on the name; a rule is
\* skipped when onlyInheritable is true and it is not inheritable), and it
\* is the same for every order of the same rules.
C16_MatchIsOrderFreeOr == OrderFree(mExclusions) /\ OrderFree(mInclusions)

\* C16 witness: a name list of two rules of which the first is skipped and
\* the second matches, so that the answer comes from the second rule.
C16_Witness ==
    /\ Len(mExclusions.mNames) = 2
    /\ ~mExclusions.mNames[1].mInheritable
    /\ \E p \in Candidates :
          /\ FilterMatch(mExclusions.mNames[1], p[1])
          /\ FilterMatch(mExclusions.mNames[2], p[1])
          /\ excluded(chain, p, TRUE)

\* C18: asking for the inherited rules only can remove matches and never
\* adds one: an answer that is true with onlyInheritable true is true with
\* onlyInheritable false, for excluded and for included.
C18_InheritedOnlyRemoves ==
    \A p \in Candidates :
        /\ excluded(chain, p, TRUE) => excluded(chain, p, FALSE)
        /\ included(chain, p, TRUE) => included(chain, p, FALSE)

\* C18 witness: one candidate is excluded under both values of the flag
\* and another only when all rules are asked for.
C18_Witness ==
    /\ \E p \in Candidates : excluded(chain, p, TRUE) /\ excluded(chain, p, FALSE)
    /\ \E p \in Candidates : ~excluded(chain, p, TRUE) /\ excluded(chain, p, FALSE)

\* the rule a successful add has just appended.
NewestRule ==
    LET c == IF lastArg[1] = "-" THEN mExclusions ELSE mInclusions
    IN  IF CharAt(lastArg, 2) = "p" THEN c.mPaths[Len(c.mPaths)]
        ELSE c.mNames[Len(c.mNames)]

\* the property C19 states of one class.
PathsInherit(c) ==
    /\ \A i \in 1..Len(c.mPaths) :
          c.mPaths[i].mInheritable /\ c.mPaths[i].mType = FT_PATH
    /\ \A i \in 1..Len(c.mNames) : c.mNames[i].mType = FT_NAME
    /\ \A q \in Queries :
          /\ MatchList(c.mPaths, q[1][2], TRUE) = MatchList(c.mPaths, q[1][2], FALSE)
          /\ ClassMatch(c, q[1], TRUE) # ClassMatch(c, q[1], FALSE) =>
                \E i \in 1..Len(c.mNames) :
                    /\ ~c.mNames[i].mInheritable
                    /\ FilterMatch(c.mNames[i], q[1][1])

\* C19: in every state reached through add, load and clear each rule of a
\* path list is inheritable and a rule is not inheritable only when it is
\* a name rule made with the axis token N, so onlyInheritable never
\* suppresses a path rule and changes an answer only through such a rule.
C19_OnlyNameRulesUninheritable ==
    /\ PathsInherit(mExclusions)
    /\ PathsInherit(mInclusions)
    /\ (lastOp = "add" /\ lastRet) =>
          (~NewestRule.mInheritable) = (lastArg[2] = "N")

\* C19 witness: the exclusions hold a path rule and a name rule made with
\* N, and the flag changes the answer for a candidate.
C19_Witness ==
    /\ mExclusions.mPaths # <<>>
    /\ \E i \in 1..Len(mExclusions.mNames) : ~mExclusions.mNames[i].mInheritable
    /\ \E p \in Candidates : excluded(chain, p, FALSE) /\ ~excluded(chain, p, TRUE)

\* the rule set a running load builds when none of its lines is rejected.
NewChain == AddEach(EmptyChain, NonComment(frame.filters))

\* the rule set the lines the loop has gone through have built.
BuiltSoFar ==
    AddEach(EmptyChain, NonComment(SubSeq(frame.filters, 1, frame.next - 1)))

\* C17: at every step of a running load the live sets hold the rule set
\* held before the load, until one step replaces them by the complete new
\* rule set after every line was validated: a query made during a load
\* finds the complete old rule set or the complete new one.
C17_NoPartialMutation ==
    frame.pc # "idle" =>
        \/ chain = preChain
        \/ /\ frame.next > Len(frame.filters)
           /\ chain = NewChain

\* C17 as amended: the result of load is all or nothing, its steps are
\* not.  While load runs the rule set held before is in the snapshot, and
\* the live sets are emptied and then hold the rules of the lines accepted
\* so far; when load returns they hold the complete old rule set (false)
\* or the complete new one (true), as the load in one step leaves them.
C17_LoadMutatesInPlace ==
    /\ frame.pc = "saveInclusions" =>
          /\ mExclusions = EmptyClass /\ mInclusions = preInclusions
          /\ frame.exclusions = preExclusions
    /\ frame.pc \in {"clear", "loop", "restoreExclusions"} =>
          /\ frame.exclusions = preExclusions
          /\ frame.inclusions = preInclusions
    /\ frame.pc = "clear" => ChainEmpty(chain)
    /\ frame.pc \in {"loop", "restoreExclusions"} => chain = BuiltSoFar
    /\ frame.pc = "restoreInclusions" =>
          /\ mExclusions = preExclusions
          /\ frame.inclusions = preInclusions
    /\ (frame.pc = "idle" /\ LoadRan) =>
          /\ lastRet = ChainLoad(preChain, TRUE, lastArg.filters).ret
          /\ chain = ChainLoad(preChain, TRUE, lastArg.filters).chain
          /\ chain = IF lastRet THEN AddEach(EmptyChain, NonComment(lastArg.filters))
                     ELSE preChain

\* C17 witness: a load is in its loop, one line added, and a candidate the
\* old rule set and the new one both include is not included by the live
\* sets.
C17_Witness ==
    /\ frame.pc = "loop"
    /\ frame.next = 2
    /\ ~ChainEmpty(chain)
    /\ AllAccepted(NonComment(frame.filters))
    /\ \E q \in Queries :
          /\ included(preChain, q[1], q[2])
          /\ included(NewChain, q[1], q[2])
          /\ ~included(chain, q[1], q[2])

====
